---- MODULE Spec2Model ----
(***************************************************************************)
(* Model of packages/WhisperDrop/scripts/fix_deps.py: main() walks the     *)
(* directory tree below '.', records every package.json outside paths      *)
(* containing 'node_modules', and fix_dependencies() rewrites the version  *)
(* specifier of every '@styx/' entry of a manifest to 'workspace:*'.       *)
(***************************************************************************)
EXTENDS Integers, Sequences, FiniteSets, TLC

VARIABLES
    disk,           \* the package.json files: file path -> file text
    diskStart,      \* history: disk when the current run of main() started
    pc,             \* position of main(): "walk", "process", "done", "aborted"
    stack,          \* os.walk's pending directories, next to visit first
    package_files,  \* main()'s list of discovered manifest paths
    idx,            \* index in package_files of the next manifest to process
    out,            \* lines printed by the current run, oldest first
    opened,         \* history: successful open() calls of the current run
    data,           \* history: the local 'data' of each fix_dependencies call
    raised,         \* history: index of the manifest whose call raised, or 0
    oserror,        \* history: index of the manifest a file operation failed on, or 0
    run             \* number of the current run of main()

vars == <<disk, diskStart, pc, stack, package_files, idx, out, opened, data,
          raised, oserror, run>>

----------------------------------------------------------------------------
\* Bounds of the model.

\* Size of the tree: the package.json files and the dependency entries
\* written in them number at most this many together.
MaxSize == 4

\* main() is run this many times in succession.
MaxRuns == 2

----------------------------------------------------------------------------
\* Literals of the script.

\* Variants of the list: one field forgotten, two fields swapped.
DepTypeOrderNoPeer == <<"dependencies", "devDependencies">>

DepTypeOrderDevFirst == <<"devDependencies", "dependencies", "peerDependencies">>

\* The three fields visited, in the order of the list literal.
DepTypeOrder == <<"dependencies", "devDependencies", "peerDependencies">>

\* The dependency fields a manifest may hold.
DepTypes == {"dependencies", "devDependencies", "peerDependencies"}

ScopeMarker == "@styx/"

WorkspaceToken == "workspace:*"

ExcludedName == "node_modules"

ManifestName == "package.json"

----------------------------------------------------------------------------
\* Python string operations.

\* s.startswith(p)
StartsWith(s, p) == Len(s) >= Len(p) /\ SubSeq(s, 1, Len(p)) = p

\* sub in s, for strings
Contains(s, sub) ==
    \E i \in 1..(Len(s) - Len(sub) + 1) : SubSeq(s, i, i + Len(sub) - 1) = sub

\* os.path.join(root, name)
PathJoin(root, name) == root \o "/" \o name

----------------------------------------------------------------------------
\* The directory tree.  A directory is the sequence of names leading to it
\* from the root of the walk.

DirList ==
    << <<>>,
       <<"a">>,
       <<"a", "node_modules", "b">>,
       <<"my_node_modules">> >>

CandidateDirs == {DirList[i] : i \in DOMAIN DirList}

RECURSIVE PathStr(_)
\* The 'root' string os.walk('.') yields for a directory.
PathStr(d) ==
    IF d = <<>> THEN "."
    ELSE PathJoin(PathStr(SubSeq(d, 1, Len(d) - 1)), d[Len(d)])

ManifestPath(d) == PathJoin(PathStr(d), ManifestName)

IsPrefix(p, d) == Len(p) <= Len(d) /\ SubSeq(d, 1, Len(p)) = p

\* The directories holding a package.json on the given disk.
ManifestDirs(dk) == {d \in CandidateDirs : ManifestPath(d) \in DOMAIN dk}

\* The directories that exist: those holding a manifest, and their ancestors.
Dirs(dk) ==
    {<<>>} \cup
    UNION { {SubSeq(d, 1, k) : k \in 0..Len(d)} : d \in ManifestDirs(dk) }

\* The subdirectories os.scandir reports for a directory.
Children(dk, d) ==
    {c \in Dirs(dk) : Len(c) = Len(d) + 1 /\ IsPrefix(d, c)}

\* Every order in which a finite set can be listed.
Orders(S) ==
    {s \in [1..Cardinality(S) -> S] : \A x \in S : \E i \in DOMAIN s : s[i] = x}

----------------------------------------------------------------------------
\* File texts and parsed JSON.

\* The entries a manifest may list: <<package name, version specifier>>.
EntryPairs ==
    { <<"@styx/core", "^1.0.0">>,
      <<"@styx/sdk", "~0.2.0">>,
      <<"@styx/core", WorkspaceToken>>,
      <<"lodash", "^4.17.21">> }

NoField == [present |-> FALSE, entries |-> <<>>]

NoDeps == [t \in DepTypes |-> NoField]

\* A text that is a JSON object, as written by its author.
ObjectText(deps) ==
    [kind |-> "object", style |-> "orig", name |-> "pkg", deps |-> deps]

\* A text that is not JSON.
GarbageText(how) ==
    [kind |-> "garbage", style |-> how, name |-> "", deps |-> NoDeps]

NoData == [ok |-> FALSE, name |-> "", deps |-> NoDeps]

\* Index of key k in an ordered mapping (a sequence of pairs), or 0.
KeyIndex(m, k) ==
    IF \E i \in DOMAIN m : m[i][1] = k
    THEN CHOOSE i \in DOMAIN m : m[i][1] = k
    ELSE 0

\* dict[k] = v: an existing key keeps its position, a new key goes last.
SetItem(m, k, v) ==
    IF KeyIndex(m, k) = 0 THEN Append(m, <<k, v>>)
    ELSE [m EXCEPT ![KeyIndex(m, k)] = <<k, v>>]

RECURSIVE ParseMapping(_, _)
\* json.load of one mapping: the pairs of the text, left to right, into a dict.
ParseMapping(pairs, acc) ==
    IF pairs = <<>> THEN acc
    ELSE ParseMapping(Tail(pairs),
                      SetItem(acc, Head(pairs)[1], Head(pairs)[2]))

\* json.load(f): the parsed object, or ok = FALSE for JSONDecodeError.
JsonLoad(text) ==
    IF text.kind # "object" THEN NoData
    ELSE [ok |-> TRUE, name |-> text.name,
          deps |-> [t \in DepTypes |->
                      [present |-> text.deps[t].present,
                       entries |-> ParseMapping(text.deps[t].entries, <<>>)]]]

\* json.dump(data, f, indent=2) followed by f.write('\n').
JsonDump(d) ==
    [kind |-> "object", style |-> "indent2", name |-> d.name, deps |-> d.deps]

----------------------------------------------------------------------------
\* The trees main() may be started on.

SeqsUpTo(X, n) == UNION {[1..k -> X] : k \in 0..n}

FieldRank == [dependencies |-> 1, devDependencies |-> 2, peerDependencies |-> 3]

\* A list of entries to write, each <<directory number, field, pair>>, that
\* names the entries of one manifest field together: lists that differ only
\* in how the fields are interleaved describe the same tree.
Grouped(pl) ==
    \A i \in DOMAIN pl : \A j \in DOMAIN pl :
        i < j => \/ pl[i][1] < pl[j][1]
                 \/ pl[i][1] = pl[j][1] /\ FieldRank[pl[i][2]] <= FieldRank[pl[j][2]]

RECURSIVE AddEntries(_, _)
\* The disk with the entries pl written into the manifests, in the order
\* given.
AddEntries(dk, pl) ==
    IF pl = <<>> THEN dk
    ELSE LET p == ManifestPath(DirList[Head(pl)[1]])
             t == Head(pl)[2]
             old == dk[p].deps[t].entries
         IN AddEntries(
                [dk EXCEPT ![p].deps[t] =
                    [present |-> TRUE, entries |-> Append(old, Head(pl)[3])]],
                Tail(pl))

\* Manifests in the directories numbered S, those in bad not being JSON.
BareDisk(S, bad) ==
    [p \in {ManifestPath(DirList[i]) : i \in S} |->
        IF \E i \in bad : p = ManifestPath(DirList[i])
        THEN GarbageText("garbage") ELSE ObjectText(NoDeps)]

\* The tree is any of those of size at most MaxSize.
InitDisk(dk) ==
    \E S \in {T \in SUBSET DOMAIN DirList : Cardinality(T) <= MaxSize} :
        \E bad \in SUBSET S :
            \E pl \in SeqsUpTo((S \ bad) \X DepTypes \X EntryPairs,
                               MaxSize - Cardinality(S)) :
                /\ Grouped(pl)
                /\ dk = AddEntries(BareDisk(S, bad), pl)

----------------------------------------------------------------------------
\* Printed lines.

UpdatingLine(pkg, path, version) ==
    [kind |-> "Updating", pkg |-> pkg, file |-> path,
     old |-> version, new |-> WorkspaceToken]

ErrorLine(path) ==
    [kind |-> "Error decoding", pkg |-> "", file |-> path,
     old |-> "", new |-> ""]

----------------------------------------------------------------------------
\* fix_dependencies: the scan of the three fields.

\* Variants of the condition: the scope test dropped, the version test
\* dropped.
NeedsRewriteAnyPackage(pkg, version) == version # WorkspaceToken

NeedsRewriteAnyVersion(pkg, version) == StartsWith(pkg, ScopeMarker)

\* The condition under which an entry is rewritten.
NeedsRewrite(pkg, version) ==
    StartsWith(pkg, ScopeMarker) /\ version # WorkspaceToken

\* Variants of the iteration: 'changed' never set; 'changed' assigned the
\* value of the condition, so that the entry visited last decides.
VisitEntryNoFlag(st, t, i, path) ==
    LET pkg == st.deps[t].entries[i][1]
        version == st.deps[t].entries[i][2]
    IN IF NeedsRewrite(pkg, version)
       THEN [deps |-> [st.deps EXCEPT ![t].entries =
                          SetItem(@, pkg, WorkspaceToken)],
             changed |-> st.changed,
             out |-> Append(st.out, UpdatingLine(pkg, path, version))]
       ELSE st

VisitEntryLastDecides(st, t, i, path) ==
    LET pkg == st.deps[t].entries[i][1]
        version == st.deps[t].entries[i][2]
    IN IF NeedsRewrite(pkg, version)
       THEN [deps |-> [st.deps EXCEPT ![t].entries =
                          SetItem(@, pkg, WorkspaceToken)],
             changed |-> TRUE,
             out |-> Append(st.out, UpdatingLine(pkg, path, version))]
       ELSE [st EXCEPT !.changed = FALSE]

\* One iteration of the inner loop, on entry i of field t.  The loop state
\* st holds the parsed object's fields, the flag 'changed' and the lines
\* printed so far.
VisitEntry(st, t, i, path) ==
    LET pkg == st.deps[t].entries[i][1]
        version == st.deps[t].entries[i][2]
    IN IF NeedsRewrite(pkg, version)
       THEN [deps |-> [st.deps EXCEPT ![t].entries =
                          SetItem(@, pkg, WorkspaceToken)],
             changed |-> TRUE,
             out |-> Append(st.out, UpdatingLine(pkg, path, version))]
       ELSE st

RECURSIVE VisitEntries(_, _, _, _, _)
\* The inner loop over the entries of field t, visited in the order perm,
\* from position k on.
VisitEntries(st, t, perm, k, path) ==
    IF k > Len(perm) THEN st
    ELSE VisitEntries(VisitEntry(st, t, perm[k], path), t, perm, k + 1, path)

RECURSIVE VisitFields(_, _, _, _, _)
\* The outer loop over the fields ord, from position k on; a field the
\* object does not hold is skipped.
VisitFields(st, ord, vis, k, path) ==
    IF k > Len(ord) THEN st
    ELSE LET t == ord[k]
         IN VisitFields(
                IF st.deps[t].present
                THEN VisitEntries(st, t, vis[t], 1, path)
                ELSE st,
                ord, vis, k + 1, path)

\* dict.items(): the entries of each field in insertion order.
ItemsOrder(d) ==
    [t \in DepTypes |-> [i \in DOMAIN d.deps[t].entries |-> i]]

\* Variants of the handler: no except clause; a bare except.
CaughtNothing(site, exc) == FALSE

CaughtAnything(site, exc) == site = "load"

\* Whether an exception raised at a site of fix_dependencies is handled
\* there: only json.load is inside the try, and only JSONDecodeError is
\* named by the except clause.
Caught(site, exc) == site = "load" /\ exc = "JSONDecodeError"

----------------------------------------------------------------------------
\* main(): discovery.

\* Variant of the test: only the node_modules directory of the root.
IsExcludedTopLevel(root) == StartsWith(root, PathJoin(".", ExcludedName))

\* The test that keeps a directory out of the list.
IsExcluded(root) == Contains(root, ExcludedName)

\* The 'files' os.walk yields for a directory.
Files(dk, d) ==
    IF ManifestPath(d) \in DOMAIN dk THEN {ManifestName} ELSE {}

\* Where main() stands once a loop has nothing left to visit.
AfterWalk(pf) == IF pf = <<>> THEN "done" ELSE "process"

Init ==
    /\ InitDisk(disk)
    /\ diskStart = disk
    /\ pc = "walk"
    /\ stack = << <<>> >>
    /\ package_files = <<>>
    /\ idx = 1
    /\ out = <<>>
    /\ opened = <<>>
    /\ data = <<>>
    /\ raised = 0
    /\ oserror = 0
    /\ run = 1

\* One iteration of the loop over os.walk('.'): the next directory is
\* yielded, its subdirectories are queued in the order the operating system
\* lists them, and its package.json is recorded unless the path is excluded.
WalkStep ==
    /\ pc = "walk"
    /\ stack # <<>>
    /\ LET d == Head(stack)
           root == PathStr(d)
           found == ~IsExcluded(root) /\ ManifestName \in Files(disk, d)
           pf == IF found
                 THEN Append(package_files, PathJoin(root, ManifestName))
                 ELSE package_files
       IN /\ package_files' = pf
          /\ \E order \in Orders(Children(disk, d)) :
                /\ stack' = order \o Tail(stack)
                /\ pc' = IF stack' = <<>> THEN AfterWalk(pf) ELSE "walk"
    /\ UNCHANGED <<disk, diskStart, idx, out, opened, data, raised, oserror, run>>

----------------------------------------------------------------------------
\* main(): the loop over package_files, one call of fix_dependencies each.

\* The call returned: the loop goes on with the next manifest.
Returned ==
    /\ idx' = idx + 1
    /\ pc' = IF idx + 1 > Len(package_files) THEN "done" ELSE "process"
    /\ raised' = raised

\* The call raised: the exception leaves main().
Raised ==
    /\ idx' = idx
    /\ pc' = "aborted"
    /\ raised' = idx

\* fix_dependencies(package_files[idx]) with every file operation
\* succeeding, the fields visited in the order ord and the entries of each
\* field in the orders vis.
FixCall(ord, vis) ==
    LET path == package_files[idx]
        loaded == JsonLoad(disk[path])
        st == VisitFields([deps |-> loaded.deps, changed |-> FALSE,
                           out |-> out],
                          ord, vis, 1, path)
        final == [loaded EXCEPT !.deps = st.deps]
    IN IF ~loaded.ok
       THEN /\ disk' = disk
            /\ opened' = Append(opened, <<"r", path>>)
            /\ data' = Append(data, NoData)
            /\ IF Caught("load", "JSONDecodeError")
               THEN out' = Append(out, ErrorLine(path)) /\ Returned
               ELSE out' = out /\ Raised
       ELSE /\ out' = st.out
            /\ data' = Append(data, final)
            /\ IF st.changed
               THEN /\ disk' = [disk EXCEPT ![path] = JsonDump(final)]
                    /\ opened' = opened \o << <<"r", path>>, <<"w", path>> >>
               ELSE /\ disk' = disk
                    /\ opened' = Append(opened, <<"r", path>>)
            /\ Returned

\* The call as the script makes it.
FixDependencies ==
    /\ pc = "process"
    /\ FixCall(DepTypeOrder, ItemsOrder(JsonLoad(disk[package_files[idx]])))
    /\ UNCHANGED <<diskStart, stack, package_files, oserror, run>>

\* main() is run again on the tree the previous run left.
StartNextRun ==
    /\ pc \in {"done", "aborted"}
    /\ run < MaxRuns
    /\ run' = run + 1
    /\ diskStart' = disk
    /\ pc' = "walk"
    /\ stack' = << <<>> >>
    /\ package_files' = <<>>
    /\ idx' = 1
    /\ out' = <<>>
    /\ opened' = <<>>
    /\ data' = <<>>
    /\ raised' = 0
    /\ oserror' = 0
    /\ UNCHANGED disk

Next == WalkStep \/ FixDependencies \/ StartNextRun

Spec == Init /\ [][Next]_vars

----------------------------------------------------------------------------
\* File operations that fail.

\* What a write that fails after open(file_path, 'w') has truncated the file
\* may leave in it: nothing, or the beginning of the new text.
Truncated == {GarbageText("empty"), GarbageText("partial")}

\* fix_dependencies(package_files[idx]) with one file operation raising
\* OSError: opening for reading, reading inside json.load, opening for
\* writing, or writing.
FixDependenciesOSError ==
    /\ pc = "process"
    /\ LET path == package_files[idx]
           loaded == JsonLoad(disk[path])
           st == VisitFields([deps |-> loaded.deps, changed |-> FALSE,
                              out |-> out],
                             DepTypeOrder, ItemsOrder(loaded), 1, path)
           final == [loaded EXCEPT !.deps = st.deps]
       IN \/ /\ disk' = disk
             /\ opened' = opened
             /\ data' = Append(data, NoData)
             /\ out' = out
             /\ Raised
          \/ /\ disk' = disk
             /\ opened' = Append(opened, <<"r", path>>)
             /\ data' = Append(data, NoData)
             /\ IF Caught("load", "OSError")
                THEN out' = Append(out, ErrorLine(path)) /\ Returned
                ELSE out' = out /\ Raised
          \/ /\ loaded.ok /\ st.changed
             /\ disk' = disk
             /\ opened' = Append(opened, <<"r", path>>)
             /\ data' = Append(data, final)
             /\ out' = st.out
             /\ Raised
          \/ /\ loaded.ok /\ st.changed
             /\ \E text \in Truncated : disk' = [disk EXCEPT ![path] = text]
             /\ opened' = opened \o << <<"r", path>>, <<"w", path>> >>
             /\ data' = Append(data, final)
             /\ out' = st.out
             /\ Raised
    /\ oserror' = idx
    /\ UNCHANGED <<diskStart, stack, package_files, run>>

NextFS == WalkStep \/ FixDependencies \/ FixDependenciesOSError

\* One run of main() in which file operations may fail.
SpecFS == Init /\ [][NextFS]_vars

----------------------------------------------------------------------------
\* The loops run in other orders.

\* The entries of each field of a parsed object, in every order.
VisitOrders(d) ==
    { [dependencies |-> a, devDependencies |-> b, peerDependencies |-> c] :
        a \in Orders(DOMAIN d.deps["dependencies"].entries),
        b \in Orders(DOMAIN d.deps["devDependencies"].entries),
        c \in Orders(DOMAIN d.deps["peerDependencies"].entries) }

\* The call with the three fields and the entries of each visited in any
\* order.
FixDependenciesAnyOrder ==
    /\ pc = "process"
    /\ \E ord \in Orders(DepTypes) :
         \E vis \in VisitOrders(JsonLoad(disk[package_files[idx]])) :
            FixCall(ord, vis)
    /\ UNCHANGED <<diskStart, stack, package_files, oserror, run>>

\* The discovered manifests listed in another order before the first call.
Reorder ==
    /\ pc = "process"
    /\ idx = 1
    /\ \E pf \in Orders({package_files[i] : i \in DOMAIN package_files}) :
         /\ pf # package_files
         /\ package_files' = pf
    /\ UNCHANGED <<disk, diskStart, pc, stack, idx, out, opened, data, raised,
                   oserror, run>>

NextAnyOrder == WalkStep \/ Reorder \/ FixDependenciesAnyOrder

\* One run of main() with the order of every loop left open.
SpecAnyOrder == Init /\ [][NextAnyOrder]_vars

----------------------------------------------------------------------------
\* Vocabulary of the properties.

\* The calls of fix_dependencies that returned in the current run.
ReturnedCalls == {j \in DOMAIN data : j # raised}

\* The manifest call j was made on, as it was when the run started.
TextBefore(j) == diskStart[package_files[j]]

Internal(pkg) == StartsWith(pkg, "@styx/")

\* Every internal entry of the three fields has the workspace specifier.
AllNormalized(deps) ==
    \A t \in DepTypes : \A i \in DOMAIN deps[t].entries :
        Internal(deps[t].entries[i][1]) => deps[t].entries[i][2] = "workspace:*"

\* Some internal entry of the three fields has another specifier.
HasStale(deps) == ~AllNormalized(deps)

OpenedFor(mode, path) == \E i \in DOMAIN opened : opened[i] = <<mode, path>>

\* The parsed content b is the parsed content a with nothing changed but
\* the specifiers of internal entries.
SameButInternal(a, b) ==
    /\ b.ok = a.ok
    /\ b.name = a.name
    /\ \A t \in DepTypes :
          /\ b.deps[t].present = a.deps[t].present
          /\ Len(b.deps[t].entries) = Len(a.deps[t].entries)
          /\ \A i \in DOMAIN a.deps[t].entries :
                /\ b.deps[t].entries[i][1] = a.deps[t].entries[i][1]
                /\ ~Internal(a.deps[t].entries[i][1])
                      => b.deps[t].entries[i][2] = a.deps[t].entries[i][2]

----------------------------------------------------------------------------
\* C1.  Normalization correctness: once fix_dependencies has returned on a
\* manifest that parses as a JSON object, every entry of dependencies,
\* devDependencies and peerDependencies whose name starts with '@styx/' has
\* the specifier 'workspace:*', in the in-memory object and in the file.
NormalizationCorrect ==
    \A j \in ReturnedCalls :
        JsonLoad(TextBefore(j)).ok =>
            /\ data[j].ok
            /\ AllNormalized(data[j].deps)
            /\ JsonLoad(disk[package_files[j]]).ok
            /\ AllNormalized(JsonLoad(disk[package_files[j]]).deps)

\* A call has returned on a manifest that held an internal entry with
\* another specifier in peerDependencies.
NormalizationWitness ==
    \E j \in ReturnedCalls :
        /\ JsonLoad(TextBefore(j)).ok
        /\ HasStale([JsonLoad(TextBefore(j)).deps EXCEPT
                        !["dependencies"] = NoField,
                        !["devDependencies"] = NoField])
        /\ OpenedFor("w", package_files[j])

\* C2.  Frame: a call changes nothing in the parsed content of its manifest
\* but the specifiers of '@styx/' entries of the three fields: the other
\* entries keep their specifier, no key is added or removed, the other
\* top-level fields keep their value; and no other manifest changes.
ScopeFrame ==
    /\ \A j \in ReturnedCalls :
          /\ SameButInternal(JsonLoad(TextBefore(j)), data[j])
          /\ SameButInternal(JsonLoad(TextBefore(j)),
                             JsonLoad(disk[package_files[j]]))
    /\ \A p \in DOMAIN disk :
          (\A j \in DOMAIN data : package_files[j] # p) => disk[p] = diskStart[p]

\* A call has rewritten a manifest that lists lodash beside a stale
\* internal entry.
ScopeFrameWitness ==
    \E j \in ReturnedCalls :
        /\ OpenedFor("w", package_files[j])
        /\ \E t \in DepTypes :
              \E i \in DOMAIN JsonLoad(TextBefore(j)).deps[t].entries :
                 JsonLoad(TextBefore(j)).deps[t].entries[i][1] = "lodash"

\* C3.  Idempotence: a run of main() that follows another leaves every file
\* as it found it, opens no file for writing and prints no 'Updating' line.
Idempotence ==
    run > 1 =>
        /\ disk = diskStart
        /\ \A i \in DOMAIN opened : opened[i][1] # "w"
        /\ \A i \in DOMAIN out : out[i].kind # "Updating"

\* The second run is over, on a tree the first run rewrote a manifest of.
IdempotenceWitness ==
    /\ run = 2
    /\ pc = "done"
    /\ \E j \in DOMAIN package_files :
          /\ j < idx
          /\ diskStart[package_files[j]].style = "indent2"

\* C4.  No-op write avoidance: a call opens its manifest for writing if and
\* only if the manifest held an internal entry whose specifier was not
\* 'workspace:*'; otherwise the file is left as it was.
WriteIffStale ==
    \A j \in ReturnedCalls :
        LET stale == JsonLoad(TextBefore(j)).ok
                       /\ HasStale(JsonLoad(TextBefore(j)).deps)
        IN /\ OpenedFor("w", package_files[j]) <=> stale
           /\ ~stale => disk[package_files[j]] = TextBefore(j)

\* A call has returned without writing on a manifest whose only internal
\* entry already had the workspace specifier, beside a lodash entry.
WriteIffStaleWitness ==
    \E j \in ReturnedCalls :
        /\ run = 1
        /\ ~OpenedFor("w", package_files[j])
        /\ \E t \in DepTypes :
              TextBefore(j).deps[t].entries =
                  << <<"@styx/core", "workspace:*">>, <<"lodash", "^4.17.21">> >>

\* The manifests recorded by discovery.
Discovered == {package_files[j] : j \in DOMAIN package_files}

\* Some name on the way to the directory is exactly 'node_modules'.
UnderNodeModules(d) == \E i \in DOMAIN d : d[i] = "node_modules"

\* C5.  Fault isolation: when a discovered manifest does not parse as JSON,
\* one error line names it, the file is neither changed nor opened for
\* writing, the run goes on and ends normally, and every other discovered
\* manifest is processed and normalized.
FaultIsolation ==
    (\E j \in DOMAIN package_files : ~JsonLoad(TextBefore(j)).ok) =>
        /\ raised = 0
        /\ pc # "aborted"
        /\ pc = "process" => /\ idx \in DOMAIN package_files
                              /\ package_files[idx] \in DOMAIN disk
        /\ \A j \in DOMAIN data :
              ~JsonLoad(TextBefore(j)).ok =>
                  /\ Cardinality({i \in DOMAIN out :
                                     /\ out[i].kind = "Error decoding"
                                     /\ out[i].file = package_files[j]}) = 1
                  /\ disk[package_files[j]] = TextBefore(j)
                  /\ ~OpenedFor("w", package_files[j])
        /\ pc = "done" =>
              \A j \in DOMAIN package_files :
                  /\ j \in ReturnedCalls
                  /\ JsonLoad(TextBefore(j)).ok =>
                        /\ JsonLoad(disk[package_files[j]]).ok
                        /\ AllNormalized(JsonLoad(disk[package_files[j]]).deps)

\* A run has ended whose first manifest was not JSON and whose second
\* manifest, holding a stale internal entry, was rewritten.
FaultIsolationWitness ==
    /\ pc = "done"
    /\ Len(package_files) = 2
    /\ ~JsonLoad(TextBefore(1)).ok
    /\ JsonLoad(TextBefore(2)).ok
    /\ HasStale(JsonLoad(TextBefore(2)).deps)
    /\ OpenedFor("w", package_files[2])

\* C6.  Exclusion: a package.json anywhere below a directory named
\* 'node_modules' is never recorded by discovery, never opened and never
\* changed.
Exclusion ==
    \A d \in CandidateDirs :
        (UnderNodeModules(d) /\ ManifestPath(d) \in DOMAIN disk) =>
            /\ ManifestPath(d) \notin Discovered
            /\ ~OpenedFor("r", ManifestPath(d))
            /\ ~OpenedFor("w", ManifestPath(d))
            /\ disk[ManifestPath(d)] = diskStart[ManifestPath(d)]

\* A run has ended on a tree with a manifest below a node_modules directory
\* that holds a stale internal entry.
ExclusionWitness ==
    /\ pc = "done"
    /\ \E d \in CandidateDirs :
          /\ UnderNodeModules(d)
          /\ ManifestPath(d) \in DOMAIN disk
          /\ JsonLoad(disk[ManifestPath(d)]).ok
          /\ HasStale(JsonLoad(disk[ManifestPath(d)]).deps)

\* C7.  Discovery completeness: every directory none of whose names is
\* exactly 'node_modules' and that holds a package.json has that manifest
\* recorded by discovery and processed by fix_dependencies.
DiscoveryComplete ==
    pc = "done" =>
        \A d \in CandidateDirs :
            (~UnderNodeModules(d) /\ ManifestPath(d) \in DOMAIN disk) =>
                /\ ManifestPath(d) \in Discovered
                /\ OpenedFor("r", ManifestPath(d))

\* C8.  File system errors are fatal and the run is sequential: nothing is
\* read or written before discovery is over; the manifests are opened one
\* at a time in the order of discovery; and when a file operation fails on
\* manifest k the run stops there, no later manifest being read or written
\* and the rewrites of the earlier manifests staying on disk.
FatalAndSequential ==
    LET reads == SelectSeq(opened, LAMBDA e : e[1] = "r")
    IN /\ pc = "walk" => opened = <<>> /\ data = <<>> /\ disk = diskStart
       /\ Len(reads) <= Len(package_files)
       /\ \A i \in DOMAIN reads : reads[i][2] = package_files[i]
       /\ \A i \in DOMAIN opened :
             opened[i][1] = "w" =>
                 i > 1 /\ opened[i - 1] = <<"r", opened[i][2]>>
       /\ oserror # 0 =>
             /\ pc = "aborted"
             /\ raised = oserror
             /\ ~ENABLED NextFS
             /\ \A j \in DOMAIN package_files :
                   /\ j > oserror =>
                         /\ ~OpenedFor("r", package_files[j])
                         /\ ~OpenedFor("w", package_files[j])
                         /\ disk[package_files[j]] = TextBefore(j)
                   /\ (j < oserror /\ JsonLoad(TextBefore(j)).ok
                          /\ HasStale(JsonLoad(TextBefore(j)).deps)) =>
                         /\ disk[package_files[j]].style = "indent2"
                         /\ JsonLoad(disk[package_files[j]]).ok
                         /\ AllNormalized(JsonLoad(disk[package_files[j]]).deps)

\* The write of the first of two discovered manifests has failed after the
\* file was truncated, the second manifest holding a stale internal entry.
FatalAndSequentialWitness ==
    /\ oserror = 1
    /\ Len(package_files) = 2
    /\ disk[package_files[1]] \in Truncated
    /\ JsonLoad(TextBefore(2)).ok
    /\ HasStale(JsonLoad(disk[package_files[2]]).deps)

\* The scan of a manifest text as the script orders it: the three fields in
\* the order of the list, the entries of each in the order of the mapping.
ScanInCodeOrder(text, path) ==
    VisitFields([deps |-> JsonLoad(text).deps, changed |-> FALSE, out |-> <<>>],
                <<"dependencies", "devDependencies", "peerDependencies">>,
                ItemsOrder(JsonLoad(text)), 1, path)

\* The text that scan leaves in the file.
TextInCodeOrder(text, path) ==
    IF JsonLoad(text).ok /\ ScanInCodeOrder(text, path).changed
    THEN JsonDump([JsonLoad(text) EXCEPT !.deps = ScanInCodeOrder(text, path).deps])
    ELSE text

\* The lines that scan prints, as a set.
LinesInCodeOrder(text, path) ==
    IF JsonLoad(text).ok
    THEN {ScanInCodeOrder(text, path).out[i] :
            i \in DOMAIN ScanInCodeOrder(text, path).out}
    ELSE {ErrorLine(path)}

\* C9.  Order independence: in whatever order the fields, the entries of a
\* field and the discovered manifests are visited, the run leaves in every
\* file the content the script's own order leaves, and prints the same
\* lines, possibly in another sequence.
OrderIndependent ==
    pc = "done" =>
        /\ \A p \in DOMAIN disk :
              disk[p] = IF p \in Discovered
                        THEN TextInCodeOrder(diskStart[p], p)
                        ELSE diskStart[p]
        /\ {out[i] : i \in DOMAIN out} =
              UNION {LinesInCodeOrder(diskStart[p], p) : p \in Discovered}

\* A run has ended that processed ./a/package.json before ./package.json
\* and, in the former, devDependencies before dependencies.
OrderIndependentWitness ==
    /\ pc = "done"
    /\ package_files = <<"./a/package.json", "./package.json">>
    /\ diskStart["./a/package.json"].deps["dependencies"].entries =
          << <<"@styx/core", "^1.0.0">> >>
    /\ diskStart["./a/package.json"].deps["devDependencies"].entries =
          << <<"@styx/sdk", "~0.2.0">> >>
    /\ Len(out) = 2
    /\ out[1].pkg = "@styx/sdk"
    /\ out[2].pkg = "@styx/core"
    /\ disk["./a/package.json"].style = "indent2"

RECURSIVE StaleLines(_, _)
\* One 'Updating' line for each internal entry of a mapping whose specifier
\* is not 'workspace:*', in the order of the mapping.
StaleLines(entries, path) ==
    IF entries = <<>> THEN <<>>
    ELSE (IF Internal(Head(entries)[1]) /\ Head(entries)[2] # "workspace:*"
          THEN << [kind |-> "Updating", pkg |-> Head(entries)[1],
                   file |-> path, old |-> Head(entries)[2],
                   new |-> "workspace:*"] >>
          ELSE <<>>)
         \o StaleLines(Tail(entries), path)

\* The lines due for one manifest.
LinesDue(text, path) ==
    IF ~JsonLoad(text).ok
    THEN << [kind |-> "Error decoding", pkg |-> "", file |-> path,
             old |-> "", new |-> ""] >>
    ELSE StaleLines(JsonLoad(text).deps["dependencies"].entries, path)
         \o StaleLines(JsonLoad(text).deps["devDependencies"].entries, path)
         \o StaleLines(JsonLoad(text).deps["peerDependencies"].entries, path)

RECURSIVE LinesDueUpTo(_)
\* The lines due for the first j manifests processed.
LinesDueUpTo(j) ==
    IF j = 0 THEN <<>>
    ELSE LinesDueUpTo(j - 1) \o LinesDue(TextBefore(j), package_files[j])

\* C10.  Reports: the run prints, for each manifest in turn, one 'Updating'
\* line per replaced entry, with the package, the file, the old specifier
\* and 'workspace:*', dependencies first, then devDependencies, then
\* peerDependencies; nothing for the other entries; and for a manifest that
\* does not parse one error line and no 'Updating' line.
ReportsMatch == out = LinesDueUpTo(Len(data))

\* A call has printed two lines, for a stale entry of dependencies and one
\* of devDependencies, on a manifest whose peerDependencies entry already
\* had the workspace specifier.
ReportsMatchWitness ==
    \E j \in ReturnedCalls :
        /\ TextBefore(j).deps["dependencies"].entries =
              << <<"@styx/sdk", "~0.2.0">> >>
        /\ TextBefore(j).deps["devDependencies"].entries =
              << <<"@styx/core", "^1.0.0">> >>
        /\ TextBefore(j).deps["peerDependencies"].entries =
              << <<"@styx/core", "workspace:*">> >>
        /\ Len(out) = 2
        /\ out[1].pkg = "@styx/sdk"
        /\ out[2].old = "^1.0.0"

====
